---- MODULE Spec2Model ----
(***************************************************************************)
(* State-machine model of the Frutia QC crate log (src/app.py): the crates *)
(* table, the process clock, and the request/response of the last handler  *)
(* that ran.  Strings are sequences of one-character strings, so that the  *)
(* parsing (float, strptime), the formatting (isoformat, CSV cells) and    *)
(* the SQL LIKE matching are computed rather than assumed.                 *)
(***************************************************************************)
EXTENDS Integers, Sequences, FiniteSets, TLC

VARIABLES crates, now, last

vars == <<crates, now, last>>

(* ------------------------------ bounds --------------------------------- *)
\* rows the table may hold
MaxCrates == 2
\* days the process clock may advance after start-up
MaxClock == 1

(* ------------------------- values and strings -------------------------- *)
\* A request or column value: Python None / SQL NULL, a str, or a number.
None == [t |-> "null", v |-> <<>>, n |-> 0]
Str(s) == [t |-> "str", v |-> s, n |-> 0]
Num(k) == [t |-> "num", v |-> <<>>, n |-> k]

\* Python truthiness of None | str | number, as used by `if x`, `x or None`.
Truthy(x) == \/ x.t = "str" /\ x.v # <<>>
             \/ x.t = "num" /\ x.n # 0

\* `data.get(key) or None`
OrNone(x) == IF Truthy(x) THEN x ELSE None

DigitChars == <<"0", "1", "2", "3", "4", "5", "6", "7", "8", "9">>

IsDigit(ch) == \E i \in 1..Len(DigitChars) : DigitChars[i] = ch

DigitVal(ch) == (CHOOSE i \in 1..Len(DigitChars) : DigitChars[i] = ch) - 1

AllDigits(s) == \A i \in 1..Len(s) : IsDigit(s[i])

RECURSIVE DecimalVal(_)
DecimalVal(s) ==
    IF s = <<>> THEN 0
    ELSE 10 * DecimalVal(SubSeq(s, 1, Len(s) - 1)) + DigitVal(s[Len(s)])

Pad2(k) == <<DigitChars[((k \div 10) % 10) + 1], DigitChars[(k % 10) + 1]>>

Pad4(k) == Pad2(k \div 100) \o Pad2(k % 100)

RECURSIVE IntText(_)
IntText(k) ==
    IF k < 10 THEN <<DigitChars[k + 1]>>
    ELSE IntText(k \div 10) \o <<DigitChars[(k % 10) + 1]>>

\* float(x): a number converts as it is, a str of decimal digits to its
\* value; any other str raises ValueError.
Float(x) ==
    IF x.t = "num" THEN [ok |-> TRUE, n |-> x.n]
    ELSE IF x.v # <<>> /\ AllDigits(x.v) THEN [ok |-> TRUE, n |-> DecimalVal(x.v)]
    ELSE [ok |-> FALSE, n |-> 0]

(* -------------------------------- dates -------------------------------- *)
Date(y, m, d) == [y |-> y, m |-> m, d |-> d]

DateOrd(dt) == dt.y * 10000 + dt.m * 100 + dt.d

DaysInMonth(y, m) ==
    IF m = 2 THEN (IF (y % 4) = 0 /\ ((y % 100) # 0 \/ (y % 400) = 0) THEN 29 ELSE 28)
    ELSE IF m \in {4, 6, 9, 11} THEN 30 ELSE 31

\* The text cut at every "-".
RECURSIVE SplitDash(_)
SplitDash(s) ==
    IF \A i \in 1..Len(s) : s[i] # "-" THEN <<s>>
    ELSE LET i == CHOOSE j \in 1..Len(s) :
                      s[j] = "-" /\ \A k \in 1..(j - 1) : s[k] # "-"
         IN <<SubSeq(s, 1, i - 1)>> \o SplitDash(SubSeq(s, i + 1, Len(s)))

\* datetime.strptime(s, "%Y-%m-%d").date(): %Y is four digits, %m and %d
\* are one or two digits in range; anything else raises ValueError.
Strptime(s) ==
    LET p == SplitDash(s)
        shaped == /\ Len(p) = 3
                  /\ Len(p[1]) = 4 /\ AllDigits(p[1])
                  /\ Len(p[2]) \in {1, 2} /\ AllDigits(p[2])
                  /\ Len(p[3]) \in {1, 2} /\ AllDigits(p[3])
    IN IF ~shaped THEN [ok |-> FALSE, date |-> Date(0, 0, 0)]
       ELSE LET y == DecimalVal(p[1])
                m == DecimalVal(p[2])
                d == DecimalVal(p[3])
            IN IF m \in 1..12 /\ d >= 1 /\ d <= DaysInMonth(y, m) /\ y >= 1
               THEN [ok |-> TRUE, date |-> Date(y, m, d)]
               ELSE [ok |-> FALSE, date |-> Date(0, 0, 0)]

\* date.isoformat()
IsoFormat(dt) == Pad4(dt.y) \o <<"-">> \o Pad2(dt.m) \o <<"-">> \o Pad2(dt.d)

\* datetime.utcnow().date() on the model's clock
Today(clock) == Date(2024, 1, 1 + clock)

(* --------------------------- the crates table -------------------------- *)
\* Request fields of an insert (form fields of POST /add, keys of the JSON
\* body of POST /api/crates); None stands for a field that was not sent.
RequiredFields == {"puc", "farm_name", "commodity"}

OptionalFields == {"run_number", "variety", "grade_class", "size", "inspector_notes"}

NoData == [run_number |-> None, puc |-> None, farm_name |-> None,
           commodity |-> None, variety |-> None, grade_class |-> None,
           size |-> None, weight |-> None, date_received |-> None,
           inspector_notes |-> None]

\* Crate(...): the column values of a new, not yet persisted row.
Crate(run_number, puc, farm_name, commodity, variety, grade_class, size, weight, date_received, inspector_notes) ==
    [run_number |-> run_number, puc |-> puc, farm_name |-> farm_name,
     commodity |-> commodity, variety |-> variety, grade_class |-> grade_class,
     size |-> size, weight |-> weight, date_received |-> date_received,
     inspector_notes |-> inspector_notes]

Raise(exc) == [ok |-> FALSE, exc |-> exc, crate |-> NoData]

Built(c) == [ok |-> TRUE, exc |-> "", crate |-> c]

\* nullable=False columns: a NULL there makes the INSERT fail.  An empty
\* string is not NULL.
NotNullOk(c) == /\ c.puc.t # "null"
                /\ c.farm_name.t # "null"
                /\ c.commodity.t # "null"

\* An id handed out twice.
NextIdReused(table) == 1

\* id of the next row (integer primary key: one more than the largest).
NextId(table) == Len(table) + 1

\* db.session.add(c); db.session.commit(): the table with the row appended,
\* its id assigned and created_at stamped from the clock.
Persist(table, c, clock) ==
    Append(table, [id |-> NextId(table),
                   run_number |-> c.run_number, puc |-> c.puc,
                   farm_name |-> c.farm_name, commodity |-> c.commodity,
                   variety |-> c.variety, grade_class |-> c.grade_class,
                   size |-> c.size, weight |-> c.weight,
                   date_received |-> c.date_received,
                   inspector_notes |-> c.inspector_notes,
                   created_at |-> Today(clock)])

\* weight = float(data["weight"]) if data.get("weight") else None
WeightArg(data) ==
    IF Truthy(data.weight)
    THEN (IF Float(data.weight).ok THEN [ok |-> TRUE, val |-> Num(Float(data.weight).n)]
          ELSE [ok |-> FALSE, val |-> None])
    ELSE [ok |-> TRUE, val |-> None]

\* date_received = strptime(data["date_received"], "%Y-%m-%d").date()
\*                 if data.get("date_received") else utcnow().date()
DateArg(data, clock) ==
    IF Truthy(data.date_received)
    THEN Strptime(data.date_received.v)
    ELSE [ok |-> TRUE, date |-> Today(clock)]

(* ------------------------------ POST /add ------------------------------ *)
\* data.get(key, ""): no error for a missing key.
FormItemOrEmpty(data, key) ==
    [ok |-> TRUE, val |-> IF data[key].t = "null" THEN Str(<<>>) ELSE data[key]]

\* data[key] on the submitted form: BadRequestKeyError when the key is missing.
FormItem(data, key) ==
    IF data[key].t = "null" THEN [ok |-> FALSE, val |-> None]
    ELSE [ok |-> TRUE, val |-> data[key]]

\* The Crate(...) expression of add_crate, its arguments evaluated in order;
\* the first exception raised ends it.
FormCrate(data, clock) ==
    IF ~FormItem(data, "puc").ok THEN Raise("BadRequestKeyError: puc")
    ELSE IF ~FormItem(data, "farm_name").ok THEN Raise("BadRequestKeyError: farm_name")
    ELSE IF ~FormItem(data, "commodity").ok THEN Raise("BadRequestKeyError: commodity")
    ELSE IF ~WeightArg(data).ok THEN Raise("ValueError: float")
    ELSE IF ~DateArg(data, clock).ok THEN Raise("ValueError: strptime")
    ELSE Built(Crate(OrNone(data.run_number),
                     FormItem(data, "puc").val,
                     FormItem(data, "farm_name").val,
                     FormItem(data, "commodity").val,
                     OrNone(data.variety),
                     OrNone(data.grade_class),
                     OrNone(data.size),
                     WeightArg(data).val,
                     DateArg(data, clock).date,
                     OrNone(data.inspector_notes)))

\* The try block of add_crate: build, add, commit.
FormInsert(data, clock) ==
    LET b == FormCrate(data, clock)
    IN IF ~b.ok THEN b
       ELSE IF ~NotNullOk(b.crate) THEN Raise("IntegrityError")
       ELSE b

(* --------------------------- POST /api/crates -------------------------- *)
\* The POST branch of api_crates: 400 when a required key is missing or
\* falsy; otherwise the Crate(...) expression, whose exceptions nothing
\* catches (the framework answers 500).
ApiInsert(payload, clock) ==
    IF ~Truthy(payload.puc) \/ ~Truthy(payload.farm_name) \/ ~Truthy(payload.commodity)
    THEN [ok |-> FALSE, status |-> 400, exc |-> "", crate |-> NoData,
          error |-> "puc, farm_name and commodity are required"]
    ELSE IF ~WeightArg(payload).ok
    THEN [ok |-> FALSE, status |-> 500, exc |-> "ValueError: float", crate |-> NoData,
          error |-> ""]
    ELSE IF ~DateArg(payload, clock).ok
    THEN [ok |-> FALSE, status |-> 500, exc |-> "ValueError: strptime", crate |-> NoData,
          error |-> ""]
    ELSE [ok |-> TRUE, status |-> 201, exc |-> "", error |-> "",
          crate |-> Crate(payload.run_number,
                          payload.puc,
                          payload.farm_name,
                          payload.commodity,
                          payload.variety,
                          payload.grade_class,
                          payload.size,
                          WeightArg(payload).val,
                          DateArg(payload, clock).date,
                          payload.inspector_notes)]

\* Crate.to_dict(): the JSON serialisation of a row.
ToDict(c) ==
    [id |-> c.id, run_number |-> c.run_number, puc |-> c.puc,
     farm_name |-> c.farm_name, commodity |-> c.commodity,
     variety |-> c.variety, grade_class |-> c.grade_class, size |-> c.size,
     weight |-> c.weight,
     date_received |-> Str(IsoFormat(c.date_received)),
     inspector_notes |-> c.inspector_notes,
     created_at |-> Str(IsoFormat(c.created_at) \o <<"T">>)]

(* ------------------------------ queries -------------------------------- *)
\* ORDER BY date_received DESC, without the id.
DateDescBefore(a, b) == DateOrd(a.date_received) > DateOrd(b.date_received)

\* ORDER BY date_received DESC, id DESC
DashboardBefore(a, b) ==
    \/ DateOrd(a.date_received) > DateOrd(b.date_received)
    \/ DateOrd(a.date_received) = DateOrd(b.date_received) /\ a.id > b.id

\* ORDER BY id DESC
IdDescBefore(a, b) == a.id > b.id

Before(order, a, b) ==
    IF order = "dashboard" THEN DashboardBefore(a, b) ELSE IdDescBefore(a, b)

\* Sorting: each row is put before the first row it must precede.
RECURSIVE InsertRow(_, _, _)
InsertRow(order, x, s) ==
    IF s = <<>> THEN <<x>>
    ELSE IF Before(order, x, Head(s)) THEN <<x>> \o s
    ELSE <<Head(s)>> \o InsertRow(order, x, Tail(s))

RECURSIVE OrderBy(_, _)
OrderBy(order, s) ==
    IF s = <<>> THEN <<>>
    ELSE InsertRow(order, s[Len(s)], OrderBy(order, SubSeq(s, 1, Len(s) - 1)))

\* lower() of SQLite: the ASCII letters only.
Lower(ch) ==
    IF ch = "A" THEN "a" ELSE IF ch = "B" THEN "b" ELSE IF ch = "C" THEN "c"
    ELSE IF ch = "R" THEN "r" ELSE ch

LowerText(s) == [i \in 1..Len(s) |-> Lower(s[i])]

\* text LIKE pattern: % stands for any run of characters, _ for any one.
RECURSIVE LikeMatch(_, _)
LikeMatch(s, p) ==
    IF p = <<>> THEN s = <<>>
    ELSE IF Head(p) = "%"
    THEN LikeMatch(s, Tail(p)) \/ (s # <<>> /\ LikeMatch(Tail(s), p))
    ELSE IF Head(p) = "_"
    THEN s # <<>> /\ LikeMatch(Tail(s), Tail(p))
    ELSE s # <<>> /\ Head(s) = Head(p) /\ LikeMatch(Tail(s), Tail(p))

\* column.ilike(f"%{text}%"): lower(column) LIKE lower('%text%'); NULL never matches.
ILike(col, text) ==
    /\ col.t = "str"
    /\ LikeMatch(LowerText(col.v), LowerText(<<"%">> \o text \o <<"%">>))

\* The WHERE clause dashboard() builds from the query string.
DashboardWhere(c, args) ==
    /\ Truthy(args.run) => (c.run_number.t = "str" /\ c.run_number.v = args.run.v)
    /\ Truthy(args.puc) => ILike(c.puc, args.puc.v)
    /\ Truthy(args.commodity) => ILike(c.commodity, args.commodity.v)
    /\ Truthy(args.farm) => ILike(c.farm_name, args.farm.v)

\* q.all() of dashboard()
DashboardQuery(table, args) ==
    OrderBy("dashboard", SelectSeq(table, LAMBDA c : DashboardWhere(c, args)))

\* sum(c.weight or 0 for c in crates)
RECURSIVE SumWeights(_)
SumWeights(rows) ==
    IF rows = <<>> THEN 0
    ELSE (IF Truthy(Head(rows).weight) THEN Head(rows).weight.n ELSE 0)
         + SumWeights(Tail(rows))

Totals(rows) == [count |-> Len(rows), total_weight |-> SumWeights(rows)]

\* Crate.query.get_or_404(crate_id)
GetOr404(table, crate_id) ==
    LET found == SelectSeq(table, LAMBDA c : c.id = crate_id)
    IN IF found = <<>> THEN [status |-> 404, rows |-> <<>>]
       ELSE [status |-> 200, rows |-> <<found[1]>>]

(* ------------------------------ CSV export ----------------------------- *)
CsvHeader == <<"id", "run_number", "puc", "farm_name", "commodity", "variety",
               "grade_class", "size", "weight", "date_received", "inspector_notes">>

\* What csv.writer puts in a cell: nothing for None, the text of a str,
\* str() of a number (a float prints with its fraction).
CsvCell(x) ==
    IF x.t = "null" THEN <<>>
    ELSE IF x.t = "str" THEN x.v
    ELSE IntText(x.n) \o <<".", "0">>

\* s.replace("\n", "\\n")
RECURSIVE EscapeNewlines(_)
EscapeNewlines(s) ==
    IF s = <<>> THEN <<>>
    ELSE (IF Head(s) = "\n" THEN <<"\\", "n">> ELSE <<Head(s)>>)
         \o EscapeNewlines(Tail(s))

CsvRow(c) ==
    <<IntText(c.id), CsvCell(c.run_number), CsvCell(c.puc), CsvCell(c.farm_name),
      CsvCell(c.commodity), CsvCell(c.variety), CsvCell(c.grade_class),
      CsvCell(c.size), CsvCell(c.weight), IsoFormat(c.date_received),
      EscapeNewlines(IF Truthy(c.inspector_notes) THEN c.inspector_notes.v ELSE <<>>)>>

\* ORDER BY date_received DESC alone: rows of one date come in an order
\* the query does not fix.
ExportOrders(table) ==
    {p \in [1..Len(table) -> 1..Len(table)] :
        /\ \A i, j \in 1..Len(table) : i # j => p[i] # p[j]
        /\ \A i, j \in 1..Len(table) :
              i < j => DateOrd(table[p[i]].date_received) >= DateOrd(table[p[j]].date_received)}

\* The document written to the StringIO: the header, then a row per crate.
CsvDocument(rows) == <<CsvHeader>> \o [i \in 1..Len(rows) |-> CsvRow(rows[i])]

\* send_file(bytes(...), ...): send_file takes a path or a binary file
\* object.  A bytes object is neither a str nor an os.PathLike, so it is
\* taken for a file object, and reading the response body calls .read() on
\* it: AttributeError, answered 500 with nothing of the document delivered.
SendFile(content) == [status |-> 500, body |-> <<>>, exc |-> "AttributeError: read"]

(* ------------------------- observation of a call ----------------------- *)
NoArgs == [run |-> None, puc |-> None, commodity |-> None, farm |-> None]

NoFlash == [category |-> "", message |-> "", exc |-> ""]

NoTotals == [count |-> 0, total_weight |-> 0]

\* The request last handled and the response it got.
Idle == [op |-> "start", data |-> NoData, args |-> NoArgs, crate_id |-> 0,
         status |-> 0, location |-> "", flash |-> NoFlash, error |-> "",
         rows |-> <<>>, totals |-> NoTotals, doc |-> <<>>, new_id |-> 0]

(* ------------------------------- inputs -------------------------------- *)
\* A well-formed insert request, from which the submitted requests differ
\* in one field.
BaseData == [NoData EXCEPT !.puc = Str(<<"a", "B">>),
                           !.farm_name = Str(<<"b">>),
                           !.commodity = Str(<<"A", "b">>)]

\* The fields an insert validates or parses.
CheckedFields == RequiredFields \cup {"weight", "date_received"}

\* The fields the dashboard filters, sorts and sums on.
QueryFields == {"run_number", "commodity", "weight", "date_received"}

TextValues(f) ==
    IF f = "weight"
    THEN {None, Str(<<>>), Str(<<"0">>), Str(<<"7">>), Str(<<"x">>)}
    ELSE IF f = "date_received"
    THEN {None, Str(<<>>),
          Str(<<"2", "0", "2", "4", "-", "0", "1", "-", "0", "2">>),
          Str(<<"2", "0", "2", "4", "-", "1", "-", "2">>),
          Str(<<"2", "0", "2", "4", "-", "1", "3", "-", "0", "1">>)}
    ELSE IF f = "inspector_notes"
    THEN {None, Str(<<>>), Str(<<"n", "\n", "m">>)}
    ELSE IF f = "commodity"
    THEN {None, Str(<<>>), Str(<<"A", "b">>), Str(<<"c">>)}
    ELSE IF f \in RequiredFields
    THEN {None, Str(<<>>), BaseData[f]}
    ELSE {None, Str(<<>>), Str(<<"r">>)}

\* A JSON body may also carry the weight as a number.
JsonValues(f) ==
    IF f = "weight" THEN TextValues(f) \cup {Num(0), Num(7)} ELSE TextValues(f)

\* The values of the fields the queries read, for the runs about queries.
QueryValues(f) ==
    IF f = "run_number" THEN {None, Str(<<"r">>)}
    ELSE IF f = "commodity" THEN {Str(<<"A", "b">>), Str(<<"c">>)}
    ELSE IF f = "weight" THEN {None, Str(<<"7">>), Str(<<"x">>)}
    ELSE {None, Str(<<"2", "0", "2", "4", "-", "0", "1", "-", "0", "2">>)}

QueryJsonValues(f) ==
    IF f = "weight" THEN QueryValues(f) \cup {Num(0), Num(7)} ELSE QueryValues(f)

\* The values a field takes in a form or a JSON body.
Values(kind, f) ==
    IF kind = "form" THEN TextValues(f)
    ELSE IF kind = "json" THEN JsonValues(f)
    ELSE IF kind = "query form" THEN QueryValues(f)
    ELSE QueryJsonValues(f)

\* Submitted forms and JSON bodies: every field but one as in BaseData.
Requests(fields, kind) ==
    UNION {{[BaseData EXCEPT ![f] = x] : x \in Values(kind, f)} : f \in fields}

FilterKeys == {"run", "puc", "commodity", "farm"}

\* request.args.get(key): None when the key is not in the query string.
FilterValues(f) ==
    IF f = "run" THEN {None, Str(<<>>), Str(<<"r">>)}
    ELSE IF f = "commodity" THEN {None, Str(<<"B">>), Str(<<"_">>), Str(<<"%">>), Str(<<"c">>)}
    ELSE IF f = "puc" THEN {None, Str(<<"A">>), Str(<<"_">>)}
    ELSE {None, Str(<<"%">>), Str(<<"c">>)}

\* Query strings with at most one, at most two of the filters.
OneFilter ==
    UNION {{[NoArgs EXCEPT ![f] = x] : x \in FilterValues(f)} : f \in FilterKeys}

TwoFilters ==
    UNION {UNION {{[a EXCEPT ![g] = y] : y \in FilterValues(g)} : g \in FilterKeys}
           : a \in OneFilter}

(* ------------------------------- actions ------------------------------- *)
Init == /\ crates = <<>>
        /\ now = 0
        /\ last = Idle

\* The process clock passes midnight (UTC).
Tick == /\ now < MaxClock
        /\ now' = now + 1
        /\ last' = [Idle EXCEPT !.op = "tick"]
        /\ UNCHANGED crates

\* POST /add with form `data`.
AddCrateCall(data) ==
    LET r == FormInsert(data, now)
    IN /\ r.ok => Len(crates) < MaxCrates
       /\ crates' = IF r.ok THEN Persist(crates, r.crate, now) ELSE crates
       /\ last' = [Idle EXCEPT
               !.op = "add_crate", !.data = data, !.status = 302,
               !.location = IF r.ok THEN "dashboard" ELSE "add_crate",
               !.flash = IF r.ok
                         THEN [category |-> "success", message |-> "Crate added.", exc |-> ""]
                         ELSE [category |-> "danger", message |-> "Failed to add crate: ",
                               exc |-> r.exc],
               !.new_id = IF r.ok THEN NextId(crates) ELSE 0]
       /\ UNCHANGED now

\* POST /api/crates with JSON body `payload`.
ApiCreateCall(payload) ==
    LET r == ApiInsert(payload, now)
    IN /\ r.ok => Len(crates) < MaxCrates
       /\ crates' = IF r.ok THEN Persist(crates, r.crate, now) ELSE crates
       /\ last' = [Idle EXCEPT
               !.op = "api_create", !.data = payload, !.status = r.status,
               !.error = r.error,
               !.flash = [NoFlash EXCEPT !.exc = r.exc],
               !.rows = IF r.ok
                        THEN <<ToDict(Persist(crates, r.crate, now)[NextId(crates)])>>
                        ELSE <<>>,
               !.new_id = IF r.ok THEN NextId(crates) ELSE 0]
       /\ UNCHANGED now

\* GET /api/crates
ApiList ==
    /\ last' = [Idle EXCEPT
            !.op = "api_list", !.status = 200,
            !.rows = [i \in 1..Len(crates) |-> ToDict(OrderBy("id", crates)[i])]]
    /\ UNCHANGED <<crates, now>>

\* The totals taken over the whole table instead of the filtered rows.
DashboardCallTotalsOfAll(args) ==
    /\ last' = [Idle EXCEPT
            !.op = "dashboard", !.args = args, !.status = 200,
            !.rows = DashboardQuery(crates, args), !.totals = Totals(crates)]
    /\ UNCHANGED <<crates, now>>

\* GET /dashboard with query string `args`.
DashboardCall(args) ==
    LET rows == DashboardQuery(crates, args)
    IN /\ last' = [Idle EXCEPT
               !.op = "dashboard", !.args = args, !.status = 200,
               !.rows = rows, !.totals = Totals(rows)]
       /\ UNCHANGED <<crates, now>>

\* GET /crate/<crate_id>
CrateDetail == \E crate_id \in 1..(MaxCrates + 1) :
    LET r == GetOr404(crates, crate_id)
    IN /\ last' = [Idle EXCEPT
               !.op = "crate_detail", !.crate_id = crate_id,
               !.status = r.status, !.rows = r.rows]
       /\ UNCHANGED <<crates, now>>

\* GET /export/csv
ExportCsv == \E p \in ExportOrders(crates) :
    LET doc == CsvDocument([i \in 1..Len(crates) |-> crates[p[i]]])
        r == SendFile(doc)
    IN /\ last' = [Idle EXCEPT
               !.op = "export_csv", !.status = r.status, !.doc = doc,
               !.rows = r.body, !.flash = [NoFlash EXCEPT !.exc = r.exc]]
       /\ UNCHANGED <<crates, now>>

\* Every handler, on the insert requests that differ from the base in a
\* required field and the query strings with one filter.
AddCrate == \E data \in Requests(RequiredFields, "form") : AddCrateCall(data)

ApiCreate == \E payload \in Requests(RequiredFields, "json") : ApiCreateCall(payload)

Dashboard == \E args \in OneFilter : DashboardCall(args)

Next == \/ AddCrate
        \/ ApiCreate
        \/ ApiList
        \/ Dashboard
        \/ CrateDetail
        \/ ExportCsv

Spec == Init /\ [][Next]_vars

\* The two ways in, on the requests that differ from the base in a field
\* the insert validates or parses, the look-up by id, and the clock.
ApiCreateChecked == \E payload \in Requests(CheckedFields, "json") : ApiCreateCall(payload)

AddChecked == \E data \in Requests(CheckedFields, "form") : AddCrateCall(data)

NextInsert == \/ ApiCreateChecked
              \/ AddChecked
              \/ CrateDetail
              \/ Tick

SpecInsert == Init /\ [][NextInsert]_vars

\* The two ways in, on the requests that differ from the base in an optional
\* field, and the JSON list that shows what was stored.
ApiCreateOptional == \E payload \in Requests(OptionalFields, "json") : ApiCreateCall(payload)

AddOptional == \E data \in Requests(OptionalFields, "form") : AddCrateCall(data)

NextOptional == \/ ApiCreateOptional
                \/ AddOptional
                \/ ApiList

SpecOptional == Init /\ [][NextOptional]_vars

\* The queries: inserts that differ in a field the queries read, the
\* dashboard on every combination of two filters, the export.
AddQueried == \E data \in Requests(QueryFields, "query form") : AddCrateCall(data)

ApiCreateQueried == \E payload \in Requests(QueryFields, "query json") : ApiCreateCall(payload)

DashboardFiltered == \E args \in TwoFilters : DashboardCall(args)

NextQuery == \/ AddQueried
             \/ ApiCreateQueried
             \/ DashboardFiltered
             \/ ExportCsv

SpecQuery == Init /\ [][NextQuery]_vars

(* ------------------------------ properties ----------------------------- *)
IsInsert(l) == l.op \in {"add_crate", "api_create"}

Rows == {crates[i] : i \in 1..Len(crates)}

\* C1: every persisted record has a non-empty puc, farm_name and commodity.
C1_RequiredNonEmpty ==
    \A c \in Rows : \A f \in RequiredFields : c[f].t = "str" /\ c[f].v # <<>>

OmitsRequired(data) == \E f \in RequiredFields : data[f].t = "null"

\* The caller is told of a validation failure: the form's danger notice
\* carrying the error, or the API's 400 with its error payload.
ValidationReported(l) ==
    \/ l.op = "add_crate" /\ l.location = "add_crate"
          /\ l.flash.category = "danger" /\ l.flash.exc # ""
    \/ l.op = "api_create" /\ l.status = 400 /\ l.error # ""

\* C2: an insert attempt that omits puc, farm_name or commodity fails, through
\* the form and through the API (which answers with an error payload), and
\* leaves the stored records as they were.
C2_OmittedFails ==
    [][(IsInsert(last') /\ OmitsRequired(last'.data))
          => (ValidationReported(last') /\ crates' = crates)]_vars

C2_Witness ==
    /\ last.op = "api_create" /\ OmitsRequired(last.data)
    /\ last.status = 400
    /\ Len(crates) > 0

IsIsoDate(s) == Strptime(s).ok /\ IsoFormat(Strptime(s).date) = s

MalformedWeight(data) == Truthy(data.weight) /\ ~Float(data.weight).ok

MalformedDate(data) == Truthy(data.date_received) /\ ~IsIsoDate(data.date_received.v)

\* C3: an insert attempt whose weight is non-empty and not a number, or whose
\* date_received is non-empty and not an ISO YYYY-MM-DD date, ends in a
\* validation failure reported to the caller and adds no record.
C3_MalformedRejected ==
    [][(IsInsert(last') /\ (MalformedWeight(last'.data) \/ MalformedDate(last'.data)))
          => (ValidationReported(last') /\ crates' = crates)]_vars

\* The stored row holds what the caller supplied for every field supplied
\* (an empty string counts as not supplied).
HoldsSupplied(row, data) ==
    /\ \A f \in RequiredFields \cup OptionalFields : Truthy(data[f]) => row[f] = data[f]
    /\ (data.weight.t # "null" /\ data.weight # Str(<<>>))
          => row.weight = Num(Float(data.weight).n)
    /\ Truthy(data.date_received) => row.date_received = Strptime(data.date_received.v).date

\* C4: after a successful insert, fetch-by-id with the assigned id returns a
\* record holding every supplied value (a weight of 0 included); fetch-by-id
\* with an id never assigned signals NotFound.
C4_RoundTrip ==
    /\ (IsInsert(last) /\ last.new_id # 0)
          => LET r == GetOr404(crates, last.new_id)
             IN r.status = 200 /\ HoldsSupplied(r.rows[1], last.data)
    /\ (last.op = "crate_detail" /\ last.crate_id \notin {c.id : c \in Rows})
          => last.status = 404

\* C5: an optional field sent as the empty string is stored as absent,
\* whichever way the record came in.
C5_EmptyOptionalAbsent ==
    \A c \in Rows : \A f \in OptionalFields : c[f] # Str(<<>>)

Contains(s, sub) ==
    \E i \in 0..(Len(s) - Len(sub)) : SubSeq(s, i + 1, i + Len(sub)) = sub

ContainsNoCase(col, text) ==
    col.t = "str" /\ Contains(LowerText(col.v), LowerText(text))

\* The filter as the specification words it: run_number equal, the three
\* texts contained without regard to case; a filter not given, or given
\* empty, does not constrain.
SatisfiesFilters(c, args) ==
    /\ Truthy(args.run) => c.run_number = args.run
    /\ Truthy(args.puc) => ContainsNoCase(c.puc, args.puc.v)
    /\ Truthy(args.commodity) => ContainsNoCase(c.commodity, args.commodity.v)
    /\ Truthy(args.farm) => ContainsNoCase(c.farm_name, args.farm.v)

\* C6: the list operation returns exactly the records that satisfy every
\* supplied filter, the text filters being case-insensitive substring tests
\* for every filter text, % and _ included.
C6_ExactlyMatching ==
    last.op = "dashboard"
       => {last.rows[i] : i \in 1..Len(last.rows)}
             = {c \in Rows : SatisfiesFilters(c, last.args)}

\* C7: the list operation returns its records by date_received descending,
\* records of one date by id descending.
C7_ListOrder ==
    last.op = "dashboard"
       => \A i, j \in 1..Len(last.rows) :
             i < j => \/ DateOrd(last.rows[i].date_received)
                            > DateOrd(last.rows[j].date_received)
                      \/ /\ last.rows[i].date_received = last.rows[j].date_received
                         /\ last.rows[i].id > last.rows[j].id

C7_Witness ==
    /\ last.op = "dashboard" /\ Len(last.rows) = 2
    /\ last.rows[1].date_received = last.rows[2].date_received
    /\ last.rows[1].id = 2

RECURSIVE WeightOf(_)
WeightOf(set) ==
    IF set = {} THEN 0
    ELSE LET c == CHOOSE x \in set : TRUE
         IN (IF c.weight.t = "num" THEN c.weight.n ELSE 0) + WeightOf(set \ {c})

\* C8: totals.count is the number of records returned and totals.total_weight
\* the sum of their weights, an absent weight counting 0; the records the
\* filters exclude add to neither.
C8_Totals ==
    last.op = "dashboard"
       => LET kept == {c \in Rows : DashboardWhere(c, last.args)}
          IN /\ last.totals.count = Len(last.rows)
             /\ last.totals.count = Cardinality(kept)
             /\ last.totals.total_weight = WeightOf(kept)

C8_Witness ==
    /\ last.op = "dashboard"
    /\ Len(last.rows) = 1 /\ Len(crates) = 2
    /\ last.totals.total_weight = 0
    /\ \E c \in Rows : c.weight = Num(7)

\* C9: the export delivers a document of one header row, in the fixed column
\* order, and then one row for each stored record.
C9_ExportDelivered ==
    last.op = "export_csv"
       => /\ last.status = 200
          /\ Len(last.rows) = Len(crates) + 1
          /\ last.rows[1] = CsvHeader
          /\ \A c \in Rows :
                Cardinality({i \in 2..Len(last.rows) : last.rows[i][1] = IntText(c.id)}) = 1

\* C10: under every operation a persisted record stays, with its id and its
\* field values (created_at included), and no two records share an id.
C10_AppendOnly ==
    [][/\ Len(crates') >= Len(crates)
       /\ \A i \in 1..Len(crates) : crates'[i] = crates[i]
       /\ \A i, j \in 1..Len(crates') : i # j => crates'[i].id # crates'[j].id]_vars

C10_Witness ==
    /\ Len(crates) = MaxCrates
    /\ last.op = "add_crate" /\ last.flash.category = "danger"

====
